---- MODULE Spec2Model ----
(***************************************************************************)
(* A model of the ingestion / retrieval / answering core of the            *)
(* repository:                                                             *)
(*   - SupabaseManager (src/supabase_utils.py): the three store tables and *)
(*     the store_document / delete_document operations, one store write    *)
(*     per step;                                                           *)
(*   - DocumentProcessor._create_chunks / _split_large_text                *)
(*     (src/document_processor.py): pure functions over texts, modelled    *)
(*     character by character;                                             *)
(*   - QAAgent.answer_question (src/qa_agent.py): retrieval, the two       *)
(*     generation calls and the response that is built.                    *)
(* Each part has its own specification (SpecStore, SpecChunk, SpecQA); the *)
(* variables of the other parts stay at their initial value.               *)
(***************************************************************************)
EXTENDS Integers, Sequences, FiniteSets, TLC

(***************************************************************************)
(* Bounds of the model.                                                    *)
(***************************************************************************)
MaxCalls == 2         \* store_document / delete_document calls in one run
MaxTextLen == 7       \* characters of a text handed to _create_chunks
MaxChunkSize == 2     \* largest chunk_size handed to _create_chunks
MaxStoredChunks == 3  \* chunk rows the similarity search can choose from
MaxRetrieved == 3     \* chunks search_similar_chunks returns (max_chunks)
MaxDocImages == 3     \* images stored for one document
MaxRespTokens == 3    \* tokens of a generation response
MaxLines == 3         \* lines of a text handed to categorize_with_keywords
MaxLeapLines == 2     \* lines of a text handed to categorize_leap_content
MaxPdfTokens == 3     \* tokens of the text process_pdf_to_markdown extracts
MaxPictures == 3      \* pictures of the document
MaxSearchRows == 3    \* chunk rows in the store searched
MaxLimit == 3         \* largest limit handed to search_similar_chunks

VARIABLES
    documents,        \* table documents: set of rows
    document_chunks,  \* table document_chunks: rows in insertion order
    document_images,  \* table document_images: rows in insertion order
    next_doc_id,      \* the serial of documents.id
    calls,            \* operations started so far (bounds the run)
    frame,            \* per caller: the running store operation and its locals
    cc_text,          \* _create_chunks: the markdown text, a sequence of characters
    cc_size,          \* _create_chunks: the chunk_size argument
    cc_chunks,        \* _create_chunks: the list returned
    cc_pc,            \* "input" before the call, "done" after it
    doc_images,       \* answer_question: the images stored per document id
    qa_pc,            \* answer_question: where the call stands
    relevant_chunks,  \* answer_question: what search_similar_chunks returned
    gen_calls,        \* number of generate_content calls made
    first_attempt,    \* "none", or how the first attempt ended: raised | unparseable | parsed
    fallback_text,    \* <<>>, or <<text>> of a fallback response that succeeded
    result_data,      \* answer_question: result_data
    response,         \* <<>>, or <<the dict returned>>
    leap_text,        \* categorize_leap_content: full_text, a sequence of characters
    ai_model,         \* categorize_leap_content: the ai_model argument
    leap_pc,          \* categorize_leap_content: where the call stands
    leap_primary,     \* "none", or how the primary strategy ended
    leap_data,        \* <<>>, or <<the JSON object the model answered with>>
    leap_content,     \* the phase assignment in use
    leap_strategy,    \* the strategy leap_content comes from
    leap_idx,         \* phases the file loop has completed
    leap_disk,        \* per phase: <<>>, or <<what its file holds>>
    leap_files,       \* the phases entered in leap_files so far
    kw_text,          \* categorize_with_keywords: full_text
    kw_pc,            \* "input" before the call, "done" after it
    kw_result,        \* <<>>, or <<the dict returned>>
    pdf_text,         \* process_pdf_to_markdown: full_text, a sequence of tokens
    pdf_pictures,     \* what happens to each picture of the document when saved
    pdf_pc,           \* process_pdf_to_markdown: where the call stands
    pdf_idx,          \* pictures the loop has handled
    image_counter,    \* process_pdf_to_markdown: image_counter
    pdf_disk,         \* the numbers N of the files image_N.png on disk
    global_image_counter,   \* process_pdf_to_markdown: global_image_counter
    full_text_with_images,  \* process_pdf_to_markdown: full_text_with_images
    search_rows,      \* search_similar_chunks: the chunk rows of the store
    search_limit,     \* search_similar_chunks: limit
    search_threshold, \* search_similar_chunks: threshold, in hundredths
    search_pc,        \* search_similar_chunks: where the call stands
    search_failure,   \* what failed in the call
    search_result     \* the list returned

storeVars == <<documents, document_chunks, document_images, next_doc_id, calls, frame>>

chunkVars == <<cc_text, cc_size, cc_chunks, cc_pc>>

qaVars == <<doc_images, qa_pc, relevant_chunks, gen_calls, first_attempt, fallback_text,
           result_data, response>>

leapVars == <<leap_text, ai_model, leap_pc, leap_primary, leap_data, leap_content,
             leap_strategy, leap_idx, leap_disk, leap_files, kw_text, kw_pc, kw_result>>

pdfVars == <<pdf_text, pdf_pictures, pdf_pc, pdf_idx, image_counter, pdf_disk,
            global_image_counter, full_text_with_images>>

searchVars == <<search_rows, search_limit, search_threshold, search_pc, search_failure,
               search_result>>

vars == <<storeVars, chunkVars, qaVars, leapVars, pdfVars, searchVars>>

(***************************************************************************)
(* Small helpers over sequences.                                           *)
(***************************************************************************)
RECURSIVE SelectRows(_, _, _)
\* the rows r of seq s with r[field] = val, in order
SelectRows(s, field, val) ==
    IF s = <<>> THEN <<>>
    ELSE IF Head(s)[field] = val
         THEN <<Head(s)>> \o SelectRows(Tail(s), field, val)
         ELSE SelectRows(Tail(s), field, val)

RECURSIVE RemoveRows(_, _, _)
\* s without the rows r with r[field] = val
RemoveRows(s, field, val) ==
    IF s = <<>> THEN <<>>
    ELSE IF Head(s)[field] = val
         THEN RemoveRows(Tail(s), field, val)
         ELSE <<Head(s)>> \o RemoveRows(Tail(s), field, val)

(***************************************************************************)
(* SupabaseManager: inputs.                                                *)
(***************************************************************************)
Procs == {1}
Filenames == {"a.pdf", "b.pdf"}
\* the chunk and image lists a caller hands over: a prefix of a list of
\* pairwise different chunks (images)
ChunkList ==
    << [text |-> "chunk text one", heading |-> "Heading one"],
       [text |-> "chunk text two", heading |-> "Heading two"] >>
ImageList ==
    << [filename |-> "image_001.png", base64_data |-> "base64 one"],
       [filename |-> "image_002.png", base64_data |-> "base64 two"] >>
ChunkInputs == { SubSeq(ChunkList, 1, n) : n \in 0..Len(ChunkList) }
ImageInputs == { <<>>, ImageList }

\* hashlib.md5(filename.encode()).hexdigest(): a fixed function of the
\* filename, taken collision-free on the filenames of the model
Md5Mutant(filename) == <<"md5">>

Md5(filename) == <<"md5", filename>>

\* generate_embedding: the model's vector for the text, or [] when the
\* embedding call raised
GenerateEmbeddingMutant(text, ok) == <<"vec", text>>

GenerateEmbedding(text, ok) == IF ok THEN <<"vec", text>> ELSE <<>>

IdleFrame ==
    [op |-> "none", pc |-> "idle", filename |-> "", chunks |-> <<>>, images |-> <<>>,
     doc_id |-> 0, idx |-> 0, stored_chunks |-> 0, stored_images |-> 0,
     ret |-> "none",
     \* history of the call: embedding calls that failed, a store write failed
     emb_failures |-> 0, write_failed |-> FALSE]

Idle(p) == frame[p].pc \in {"idle", "returned", "raised"}

(***************************************************************************)
(* table('documents').upsert(doc_data, on_conflict='doc_hash'): the row    *)
(* with this doc_hash is overwritten and keeps its id; otherwise a new row *)
(* gets the next serial id.  The result is <<table, id of the row>>.       *)
(***************************************************************************)
InsertDocumentMutant(docs, doc_data, new_id) ==
    <<docs \cup { [doc_data EXCEPT !.id = new_id] }, new_id>>

UpsertDocument(docs, doc_data, new_id) ==
    IF \E d \in docs : d.doc_hash = doc_data.doc_hash
    THEN LET old == CHOOSE d \in docs : d.doc_hash = doc_data.doc_hash
         IN  <<(docs \ {old}) \cup { [doc_data EXCEPT !.id = old.id] }, old.id>>
    ELSE <<docs \cup { [doc_data EXCEPT !.id = new_id] }, new_id>>

\* lines 91-94 and 135-137: a failed store write ends store_document with
\* an exception (the missing id raises, the handler re-raises)
OnWriteFailureMutant(fr) ==
    IF fr.pc \in {"chunks", "images"}
    THEN [fr EXCEPT !.pc = "returned",
                    !.ret = [document_id |-> fr.doc_id, filename |-> fr.filename,
                             chunks_stored |-> fr.stored_chunks,
                             images_stored |-> fr.stored_images]]
    ELSE [fr EXCEPT !.pc = "raised"]

OnWriteFailure(fr) == [fr EXCEPT !.pc = "raised"]

\* store_document's loops: from the chunk loop to the image loop to the
\* return statement, as the loop indices run out
Advance(fr) ==
    LET a == IF fr.pc = "chunks" /\ fr.idx >= Len(fr.chunks)
             THEN [fr EXCEPT !.pc = "images", !.idx = 0]
             ELSE fr
    IN  IF a.pc = "images" /\ a.idx >= Len(a.images)
        THEN [a EXCEPT !.pc = "returned",
                       !.ret = [document_id |-> a.doc_id, filename |-> a.filename,
                                chunks_stored |-> a.stored_chunks,
                                images_stored |-> a.stored_images]]
        ELSE a

(***************************************************************************)
(* store_document, step 1: the call, doc_hash, the upsert of the document  *)
(* row and the check of the returned id.  outcome: "ok" (row written and   *)
(* returned), "nodata" (row written, no row returned) or "raise" (the      *)
(* upsert raised; nothing written).                                        *)
(***************************************************************************)
StoreDocumentUpsert(p, filename, full_text, chunks, images, outcome) ==
    /\ Idle(p)
    /\ calls < MaxCalls
    /\ calls' = calls + 1
    /\ LET doc_data == [id |-> 0, filename |-> filename, doc_hash |-> Md5(filename),
                        full_text |-> full_text, chunk_count |-> Len(chunks),
                        image_count |-> Len(images)]
           up == UpsertDocument(documents, doc_data, next_doc_id)
           fr == [IdleFrame EXCEPT !.op = "store", !.filename = filename,
                                   !.chunks = chunks, !.images = images]
       IN  IF outcome = "raise"
           THEN /\ UNCHANGED <<documents, next_doc_id>>
                /\ frame' = [frame EXCEPT ![p] =
                                [OnWriteFailure(fr) EXCEPT !.write_failed = TRUE]]
           ELSE /\ documents' = up[1]
                /\ next_doc_id' = IF up[2] = next_doc_id THEN next_doc_id + 1 ELSE next_doc_id
                /\ frame' = [frame EXCEPT ![p] =
                                IF outcome = "ok"
                                THEN Advance([fr EXCEPT !.pc = "chunks", !.doc_id = up[2]])
                                ELSE [OnWriteFailure(fr) EXCEPT !.write_failed = TRUE]]
    /\ UNCHANGED <<document_chunks, document_images>>
    /\ UNCHANGED <<chunkVars, qaVars, leapVars, pdfVars, searchVars>>

(***************************************************************************)
(* store_document, step 2: one turn of the chunk loop: the embedding of    *)
(* the chunk (an empty vector when the embedding call failed) and the      *)
(* insert of the chunk row, which may raise.                               *)
(***************************************************************************)
\* lines 98-108: chunk_data of the chunk at position fr.idx of the list
ChunkDataMutant(fr, emb_ok) ==
    [document_id |-> fr.doc_id, chunk_index |-> fr.idx + 1,
     text |-> fr.chunks[fr.idx + 1].text, heading |-> fr.chunks[fr.idx + 1].heading,
     embedding |-> GenerateEmbedding(fr.chunks[fr.idx + 1].text, emb_ok)]

ChunkData(fr, emb_ok) ==
    [document_id |-> fr.doc_id, chunk_index |-> fr.idx,
     text |-> fr.chunks[fr.idx + 1].text, heading |-> fr.chunks[fr.idx + 1].heading,
     embedding |-> GenerateEmbedding(fr.chunks[fr.idx + 1].text, emb_ok)]

StoreDocumentInsertChunk(p, emb_ok, insert_ok) ==
    /\ frame[p].op = "store"
    /\ frame[p].pc = "chunks"
    /\ LET fr == [frame[p] EXCEPT !.emb_failures = IF emb_ok THEN @ ELSE @ + 1]
           chunk_data == ChunkData(fr, emb_ok)
       IN  IF insert_ok
           THEN /\ document_chunks' = Append(document_chunks, chunk_data)
                /\ frame' = [frame EXCEPT ![p] =
                                Advance([fr EXCEPT !.idx = fr.idx + 1,
                                                   !.stored_chunks = fr.stored_chunks + 1])]
           ELSE /\ UNCHANGED document_chunks
                /\ frame' = [frame EXCEPT ![p] =
                                [OnWriteFailure(fr) EXCEPT !.write_failed = TRUE]]
    /\ UNCHANGED <<documents, document_images, next_doc_id, calls>>
    /\ UNCHANGED <<chunkVars, qaVars, leapVars, pdfVars, searchVars>>

(***************************************************************************)
(* store_document, step 3: one turn of the image loop.                     *)
(***************************************************************************)
StoreDocumentInsertImage(p, insert_ok) ==
    /\ frame[p].op = "store"
    /\ frame[p].pc = "images"
    /\ LET fr == frame[p]
           image == fr.images[fr.idx + 1]
           image_data == [document_id |-> fr.doc_id, image_index |-> fr.idx,
                          filename |-> image.filename, image_data |-> image.base64_data,
                          caption |-> "", context |-> ""]
       IN  IF insert_ok
           THEN /\ document_images' = Append(document_images, image_data)
                /\ frame' = [frame EXCEPT ![p] =
                                Advance([fr EXCEPT !.idx = fr.idx + 1,
                                                   !.stored_images = fr.stored_images + 1])]
           ELSE /\ UNCHANGED document_images
                /\ frame' = [frame EXCEPT ![p] =
                                [OnWriteFailure(fr) EXCEPT !.write_failed = TRUE]]
    /\ UNCHANGED <<documents, document_chunks, next_doc_id, calls>>
    /\ UNCHANGED <<chunkVars, qaVars, leapVars, pdfVars, searchVars>>

(***************************************************************************)
(* delete_document: the chunk rows, then the image rows, then the document *)
(* row, each delete a store write that may raise; any exception is caught  *)
(* and False is returned.                                                  *)
(***************************************************************************)
DeleteDocumentChunksMutant(p, document_id, ok) ==
    /\ Idle(p)
    /\ calls < MaxCalls
    /\ calls' = calls + 1
    /\ LET fr == [IdleFrame EXCEPT !.op = "delete", !.doc_id = document_id]
       IN  IF ok
           THEN /\ documents' = { d \in documents : d.id # document_id }
                /\ frame' = [frame EXCEPT ![p] = [fr EXCEPT !.pc = "del_images"]]
           ELSE /\ UNCHANGED documents
                /\ frame' = [frame EXCEPT ![p] = [fr EXCEPT !.pc = "returned", !.ret = FALSE]]
    /\ UNCHANGED <<document_chunks, document_images, next_doc_id>>
    /\ UNCHANGED <<chunkVars, qaVars, leapVars, pdfVars, searchVars>>

DeleteDocumentChunks(p, document_id, ok) ==
    /\ Idle(p)
    /\ calls < MaxCalls
    /\ calls' = calls + 1
    /\ LET fr == [IdleFrame EXCEPT !.op = "delete", !.doc_id = document_id]
       IN  IF ok
           THEN /\ document_chunks' = RemoveRows(document_chunks, "document_id", document_id)
                /\ frame' = [frame EXCEPT ![p] = [fr EXCEPT !.pc = "del_images"]]
           ELSE /\ UNCHANGED document_chunks
                /\ frame' = [frame EXCEPT ![p] = [fr EXCEPT !.pc = "returned", !.ret = FALSE]]
    /\ UNCHANGED <<documents, document_images, next_doc_id>>
    /\ UNCHANGED <<chunkVars, qaVars, leapVars, pdfVars, searchVars>>

DeleteDocumentImagesMutant(p, ok) ==
    /\ frame[p].op = "delete"
    /\ frame[p].pc = "del_images"
    /\ IF ok
       THEN document_images' = RemoveRows(document_images, "document_id", frame[p].doc_id)
       ELSE UNCHANGED document_images
    /\ frame' = [frame EXCEPT ![p].pc = "del_document"]
    /\ UNCHANGED <<documents, document_chunks, next_doc_id, calls>>
    /\ UNCHANGED <<chunkVars, qaVars, leapVars, pdfVars, searchVars>>

DeleteDocumentImages(p, ok) ==
    /\ frame[p].op = "delete"
    /\ frame[p].pc = "del_images"
    /\ IF ok
       THEN /\ document_images' = RemoveRows(document_images, "document_id", frame[p].doc_id)
            /\ frame' = [frame EXCEPT ![p].pc = "del_document"]
       ELSE /\ UNCHANGED document_images
            /\ frame' = [frame EXCEPT ![p].pc = "returned", ![p].ret = FALSE]
    /\ UNCHANGED <<documents, document_chunks, next_doc_id, calls>>
    /\ UNCHANGED <<chunkVars, qaVars, leapVars, pdfVars, searchVars>>

DeleteDocumentRow(p, ok) ==
    /\ frame[p].op = "delete"
    /\ frame[p].pc = "del_document"
    /\ IF ok
       THEN /\ documents' = { d \in documents : d.id # frame[p].doc_id }
            /\ frame' = [frame EXCEPT ![p].pc = "returned", ![p].ret = TRUE]
       ELSE /\ UNCHANGED documents
            /\ frame' = [frame EXCEPT ![p].pc = "returned", ![p].ret = FALSE]
    /\ UNCHANGED <<document_chunks, document_images, next_doc_id, calls>>
    /\ UNCHANGED <<chunkVars, qaVars, leapVars, pdfVars, searchVars>>

(***************************************************************************)
(* The parts of the state a specification does not use stay as they are    *)
(* here.                                                                   *)
(***************************************************************************)
StoreOff ==
    /\ documents = {} /\ document_chunks = <<>> /\ document_images = <<>>
    /\ next_doc_id = 1 /\ calls = 0 /\ frame = [p \in Procs |-> IdleFrame]

ChunkOff == cc_text = <<>> /\ cc_size = 0 /\ cc_chunks = <<>> /\ cc_pc = "off"

QAOff ==
    /\ doc_images = <<>> /\ qa_pc = "off" /\ relevant_chunks = <<>> /\ gen_calls = 0
    /\ first_attempt = "none" /\ fallback_text = <<>> /\ result_data = <<>>
    /\ response = <<>>

LeapOff ==
    /\ leap_text = <<>> /\ ai_model = "none" /\ leap_pc = "off" /\ leap_primary = "none"
    /\ leap_data = <<>> /\ leap_content = <<>> /\ leap_strategy = "none"
    /\ leap_idx = 0 /\ leap_disk = <<>> /\ leap_files = <<>>
    /\ kw_text = <<>> /\ kw_pc = "off" /\ kw_result = <<>>

PdfOff ==
    /\ pdf_text = <<>> /\ pdf_pictures = <<>> /\ pdf_pc = "off" /\ pdf_idx = 0
    /\ image_counter = 0 /\ pdf_disk = {} /\ global_image_counter = 0
    /\ full_text_with_images = <<>>

SearchOff ==
    /\ search_rows = <<>> /\ search_limit = 0 /\ search_threshold = 0
    /\ search_pc = "off" /\ search_failure = "none" /\ search_result = <<>>

(***************************************************************************)
(* The store, used by one caller at a time.                                *)
(***************************************************************************)
StoreInit ==
    /\ documents = {}
    /\ document_chunks = <<>>
    /\ document_images = <<>>
    /\ next_doc_id = 1
    /\ calls = 0
    /\ frame = [p \in Procs |-> IdleFrame]
    /\ ChunkOff
    /\ QAOff
    /\ LeapOff
    /\ PdfOff
    /\ SearchOff

StoreNext ==
    \/ \E p \in Procs, f \in Filenames, cs \in ChunkInputs, ims \in ImageInputs,
          o \in {"ok", "nodata", "raise"} :
            StoreDocumentUpsert(p, f, "full", cs, ims, o)
    \/ \E p \in Procs, e \in BOOLEAN, i \in BOOLEAN : StoreDocumentInsertChunk(p, e, i)
    \/ \E p \in Procs, i \in BOOLEAN : StoreDocumentInsertImage(p, i)
    \/ \E p \in Procs, id \in 1..next_doc_id, ok \in BOOLEAN : DeleteDocumentChunks(p, id, ok)
    \/ \E p \in Procs, ok \in BOOLEAN : DeleteDocumentImages(p, ok)
    \/ \E p \in Procs, ok \in BOOLEAN : DeleteDocumentRow(p, ok)

SpecStore == StoreInit /\ [][StoreNext]_vars

(***************************************************************************)
(* Two concurrent store_document calls for two different filenames, over   *)
(* an empty store: each process makes one call, and the store writes of    *)
(* the two calls interleave in every order.                                *)
(***************************************************************************)
ConcProcs == {1, 2}
ConcFilename(p) == IF p = 1 THEN "a.pdf" ELSE "b.pdf"
ConcChunks(p) ==
    IF p = 1 THEN ChunkList
    ELSE << [text |-> "other chunk text", heading |-> "Other heading"] >>
ConcImages(p) ==
    IF p = 1 THEN SubSeq(ImageList, 1, 1)
    ELSE << [filename |-> "image_001.png", base64_data |-> "base64 other"] >>

ConcInit ==
    /\ documents = {}
    /\ document_chunks = <<>>
    /\ document_images = <<>>
    /\ next_doc_id = 1
    /\ calls = 0
    /\ frame = [p \in ConcProcs |-> IdleFrame]
    /\ ChunkOff
    /\ QAOff
    /\ LeapOff
    /\ PdfOff
    /\ SearchOff

ConcNext ==
    \/ \E p \in ConcProcs, o \in {"ok", "nodata", "raise"} :
          /\ frame[p].pc = "idle"
          /\ StoreDocumentUpsert(p, ConcFilename(p), "full", ConcChunks(p), ConcImages(p), o)
    \/ \E p \in ConcProcs, e \in BOOLEAN, i \in BOOLEAN : StoreDocumentInsertChunk(p, e, i)
    \/ \E p \in ConcProcs, i \in BOOLEAN : StoreDocumentInsertImage(p, i)

SpecConcurrent == ConcInit /\ [][ConcNext]_vars

(***************************************************************************)
(* DocumentProcessor: texts are sequences of characters over a letter, the *)
(* heading marker, the blank and the newline.                              *)
(***************************************************************************)
Chars == {"a", "#", " ", "\n"}
Texts == UNION { [1..n -> Chars] : n \in 0..MaxTextLen }

\* str.isspace of one character
IsSpace(c) == c \in {" ", "\n"}

RECURSIVE LStrip(_)
LStrip(s) == IF s # <<>> /\ IsSpace(Head(s)) THEN LStrip(Tail(s)) ELSE s

RECURSIVE RStrip(_)
RStrip(s) ==
    IF s # <<>> /\ IsSpace(s[Len(s)]) THEN RStrip(SubSeq(s, 1, Len(s) - 1)) ELSE s

\* str.strip()
Strip(s) == RStrip(LStrip(s))

RECURSIVE SplitAcc(_, _)
\* str.split('\n\n'), with the piece collected so far
SplitAcc(s, cur) ==
    IF s = <<>> THEN <<cur>>
    ELSE IF Len(s) >= 2 /\ s[1] = "\n" /\ s[2] = "\n"
         THEN <<cur>> \o SplitAcc(SubSeq(s, 3, Len(s)), <<>>)
         ELSE SplitAcc(Tail(s), Append(cur, Head(s)))

SplitParagraphs(s) == SplitAcc(s, <<>>)

\* str.replace('#', '')
RemoveHashes(s) == SelectSeq(s, LAMBDA c : c # "#")

\* the number of '#' from position i on
RECURSIVE HashRun(_, _)
HashRun(t, i) == IF i <= Len(t) /\ t[i] = "#" THEN 1 + HashRun(t, i + 1) ELSE 0

\* the last position of the line that holds position i
RECURSIVE LineEnd(_, _)
LineEnd(t, i) == IF i < Len(t) /\ t[i + 1] # "\n" THEN LineEnd(t, i + 1) ELSE i

SetMax(S) == CHOOSE x \in S : \A y \in S : y <= x

(***************************************************************************)
(* The heading pattern ^#{2,3}\s+.+$ under re.MULTILINE, tried at position *)
(* i: 0 when it does not match there, else the last position matched.      *)
(* #{2,3} must be followed by whitespace, so the run of '#' is 2 or 3      *)
(* long; \s+ (which also takes newlines) is greedy and gives characters    *)
(* back until .+ finds a character that is not a newline; .+ then runs to  *)
(* the end of that line.                                                   *)
(***************************************************************************)
HeadingMatchEnd(t, i) ==
    LET h == HashRun(t, i)
        j == i + h
        starts == { m \in (j + 1)..Len(t) :
                       /\ t[m] # "\n"
                       /\ \A q \in j..(m - 1) : IsSpace(t[q]) }
    IN  IF (i = 1 \/ t[i - 1] = "\n") /\ h \in {2, 3} /\ starts # {}
        THEN LineEnd(t, SetMax(starts))
        ELSE 0

RECURSIVE ReSplitFrom(_, _, _)
\* re.split(r'(^#{2,3}\s+.+$)', text, flags=re.MULTILINE) from position pos
\* on, the search for the next match standing at position i
ReSplitFrom(t, pos, i) ==
    IF i > Len(t) THEN << SubSeq(t, pos, Len(t)) >>
    ELSE LET e == HeadingMatchEnd(t, i)
         IN  IF e = 0 THEN ReSplitFrom(t, pos, i + 1)
             ELSE << SubSeq(t, pos, i - 1), SubSeq(t, i, e) >> \o ReSplitFrom(t, e + 1, e + 1)

ReSplit(t) == ReSplitFrom(t, 1, 1)

\* re.match(r'^#{2,3}\s+', section)
IsHeadingSection(section) ==
    LET h == HashRun(section, 1)
    IN  h \in {2, 3} /\ Len(section) > h /\ IsSpace(section[h + 1])

RECURSIVE SplitLoop(_, _, _, _, _)
\* the paragraph loop of _split_large_text and what follows it
SplitLoop(paragraphs, current_chunk, out, heading, size) ==
    IF paragraphs = <<>>
    THEN IF Strip(current_chunk) # <<>>
         THEN Append(out, [text |-> Strip(current_chunk), heading |-> heading])
         ELSE out
    ELSE LET para == Head(paragraphs)
         IN  IF Len(current_chunk) + Len(para) > size /\ current_chunk # <<>>
             THEN SplitLoop(Tail(paragraphs), para,
                            Append(out, [text |-> Strip(current_chunk), heading |-> heading]),
                            heading, size)
             ELSE SplitLoop(Tail(paragraphs),
                            IF current_chunk # <<>>
                            THEN current_chunk \o <<"\n", "\n">> \o para
                            ELSE para,
                            out, heading, size)

\* DocumentProcessor._split_large_text
SplitLargeText(txt, heading, size) ==
    LET t == Strip(txt)
    IN  IF t = <<>> THEN <<>>
        ELSE IF Len(t) <= size THEN << [text |-> t, heading |-> heading] >>
        ELSE SplitLoop(SplitParagraphs(t), <<>>, <<>>, heading, size)

RECURSIVE SectionLoop(_, _, _, _, _)
\* the section loop of _create_chunks and what follows it
SectionLoop(sections, current_heading, current_text, out, size) ==
    IF sections = <<>>
    THEN IF Strip(current_text) # <<>>
         THEN out \o SplitLargeText(current_text, current_heading, size)
         ELSE out
    ELSE LET section == Head(sections)
         IN  IF IsHeadingSection(section)
             THEN SectionLoop(Tail(sections), Strip(RemoveHashes(section)), <<>>,
                              IF Strip(current_text) # <<>>
                              THEN out \o SplitLargeText(current_text, current_heading, size)
                              ELSE out,
                              size)
             ELSE SectionLoop(Tail(sections), current_heading, current_text \o section,
                              out, size)

\* DocumentProcessor._create_chunks
CreateChunks(txt, size) == SectionLoop(ReSplit(txt), <<>>, <<>>, <<>>, size)

(***************************************************************************)
(* _create_chunks applied to every text and chunk_size of the bounds.      *)
(***************************************************************************)
ChunkInit ==
    /\ cc_text \in Texts
    /\ cc_size \in 1..MaxChunkSize
    /\ cc_chunks = <<>>
    /\ cc_pc = "input"
    /\ StoreOff
    /\ QAOff
    /\ LeapOff
    /\ PdfOff
    /\ SearchOff

CreateChunksCall ==
    /\ cc_pc = "input"
    /\ cc_chunks' = CreateChunks(cc_text, cc_size)
    /\ cc_pc' = "done"
    /\ UNCHANGED <<cc_text, cc_size>>
    /\ UNCHANGED <<storeVars, qaVars, leapVars, pdfVars, searchVars>>

ChunkNext == CreateChunksCall

SpecChunk == ChunkInit /\ [][ChunkNext]_vars

(***************************************************************************)
(* QAAgent.answer_question.                                                *)
(*                                                                         *)
(* Strings the code only passes on are tuples of their parts.  A           *)
(* generation response text is a sequence of tokens: FENCE_JSON (three     *)
(* backticks and the word json), FENCE (three backticks), whitespace, one  *)
(* JSON document (its value is given beside the text) and junk, text that  *)
(* is not JSON.                                                            *)
(***************************************************************************)
Tokens == {"FENCE_JSON", "FENCE", " ", "JSON", "junk"}
ResponseTexts == UNION { [1..n -> Tokens] : n \in 0..MaxRespTokens }

\* a dict key that is absent is <<>>, one that is present is <<value>>
ConfidenceValues == {"high", "medium", "low", "certain"}
JsonObjects ==
    [kind : {"object"},
     answer : {<<>>, << <<"A">> >>},
     sources : {<<>>, << << <<"source", 1>> >> >>},
     confidence : {<<>>} \cup { <<c>> : c \in ConfidenceValues }]
JsonOthers ==
    [kind : {"array", "string", "number", "null"},
     answer : {<<>>}, sources : {<<>>}, confidence : {<<>>}]
JsonValues == JsonObjects \cup JsonOthers

\* dict.get(key, default) on an entry of a dict
DictGet(entry, default) == IF entry = <<>> THEN default ELSE entry[1]

\* str.strip() of a response text
RECURSIVE StripTokens(_)
StripTokens(t) ==
    IF t # <<>> /\ Head(t) = " " THEN StripTokens(Tail(t))
    ELSE IF t # <<>> /\ t[Len(t)] = " " THEN StripTokens(SubSeq(t, 1, Len(t) - 1))
    ELSE t

\* t up to its first fence, as split on the fence and [0] give it
RECURSIVE UpToFence(_)
UpToFence(t) ==
    IF t = <<>> \/ Head(t) \in {"FENCE_JSON", "FENCE"} THEN <<>>
    ELSE <<Head(t)>> \o UpToFence(Tail(t))

\* lines 113-119: strip, then the text between the opening fence and the
\* next one when the response starts with a fence
ExtractJsonText(resp) ==
    LET response_text == StripTokens(resp)
    IN  IF response_text # <<>> /\ Head(response_text) \in {"FENCE_JSON", "FENCE"}
        THEN StripTokens(UpToFence(Tail(response_text)))
        ELSE response_text

\* json.loads: <<value>> when the text is one JSON document (whitespace
\* around it allowed), <<>> when it raises
JsonLoads(t, value) == IF StripTokens(t) = <<"JSON">> THEN <<value>> ELSE <<>>

\* line 85: if not relevant_chunks
NoChunksMutant(chunks) == FALSE

NoChunks(chunks) == chunks = <<>>

NoInformationResponse ==
    [answer |-> <<"I don't have any information to answer that question. Please make sure documents have been uploaded and processed.">>,
     sources |-> <<>>, images |-> <<>>, confidence |-> "low", chunks_used |-> 0]

\* lines 131-135: result_data of the fallback path
FallbackResultDataMutant(answer_text, chunks) ==
    [kind |-> "object", answer |-> <<answer_text>>,
     sources |-> << <<>> >>, confidence |-> <<"low">>]

FallbackResultData(answer_text, chunks) ==
    [kind |-> "object", answer |-> <<answer_text>>,
     sources |-> << [i \in 1..Len(chunks) |-> chunks[i].heading] >>,
     confidence |-> <<"medium">>]

\* lines 137-143: the response when the fallback call raised e2
ErrorResponseMutant(e2) ==
    [answer |-> <<"Error generating answer: ", e2>>,
     sources |-> <<>>, images |-> <<>>, confidence |-> "medium", chunks_used |-> 0]

ErrorResponse(e2) ==
    [answer |-> <<"Error generating answer: ", e2>>,
     sources |-> <<>>, images |-> <<>>, confidence |-> "low", chunks_used |-> 0]

\* seq[:n]
TakeMutant(seq, n) == seq

Take(seq, n) == SubSeq(seq, 1, IF Len(seq) < n THEN Len(seq) ELSE n)

RECURSIVE CollectImages(_)
\* lines 146-149: at most 2 images of each chunk, in chunk order
CollectImages(chunks) ==
    IF chunks = <<>> THEN <<>>
    ELSE (IF Head(chunks).images # <<>> THEN Take(Head(chunks).images, 2) ELSE <<>>)
         \o CollectImages(Tail(chunks))

\* lines 152-158
PrepareResponse(data, chunks) ==
    [answer |-> DictGet(data.answer, <<"No answer generated">>),
     sources |-> DictGet(data.sources, <<>>),
     images |-> Take(CollectImages(chunks), 5),
     confidence |-> DictGet(data.confidence, "medium"),
     chunks_used |-> Len(chunks)]

\* what search_similar_chunks can return: a ranking of different chunk
\* rows of the store, at most MaxRetrieved of them, each with all the images
\* of its document (get_document_images).  The rows are spread over two
\* documents, and neighbouring rows share a heading.
DocIds == {1, 2}
StoredChunkIds == 1..MaxStoredChunks
RetrievedChunk(c) ==
    [heading |-> <<"heading", (c + 1) \div 2>>,
     document_id |-> ((c - 1) % 2) + 1,
     images |-> doc_images[((c - 1) % 2) + 1]]
Retrievals ==
    { [i \in 1..Len(r) |-> RetrievedChunk(r[i])] :
        r \in { q \in UNION { [1..n -> StoredChunkIds] : n \in 0..MaxRetrieved } :
                    \A i \in 1..Len(q), j \in 1..Len(q) : i # j => q[i] # q[j] } }

QAInit ==
    /\ \E n \in [DocIds -> 0..MaxDocImages] :
          doc_images = [d \in DocIds |-> [i \in 1..n[d] |-> <<"image", d, i>>]]
    /\ qa_pc = "start"
    /\ relevant_chunks = <<>>
    /\ gen_calls = 0
    /\ first_attempt = "none"
    /\ fallback_text = <<>>
    /\ result_data = <<>>
    /\ response = <<>>
    /\ StoreOff
    /\ ChunkOff
    /\ LeapOff
    /\ PdfOff
    /\ SearchOff

\* lines 78-92: retrieval (search_similar_chunks returns a list, the empty
\* one when it failed) and the short-circuit on an empty list
AnswerRetrieve(chunks) ==
    /\ qa_pc = "start"
    /\ relevant_chunks' = chunks
    /\ IF NoChunks(chunks)
       THEN qa_pc' = "returned" /\ response' = <<NoInformationResponse>>
       ELSE qa_pc' = "generate" /\ UNCHANGED response
    /\ UNCHANGED <<doc_images, gen_calls, first_attempt, fallback_text, result_data>>
    /\ UNCHANGED <<storeVars, chunkVars, leapVars, pdfVars, searchVars>>

\* lines 111-125, when generate_content (or response.text) raises
AnswerGenerateRaises ==
    /\ qa_pc = "generate"
    /\ gen_calls' = gen_calls + 1
    /\ first_attempt' = "raised"
    /\ qa_pc' = "fallback"
    /\ UNCHANGED <<doc_images, relevant_chunks, fallback_text, response, result_data>>
    /\ UNCHANGED <<storeVars, chunkVars, leapVars, pdfVars, searchVars>>

AnswerGenerateMutant(resp, value) ==
    /\ qa_pc = "generate"
    /\ gen_calls' = gen_calls + 1
    /\ LET parsed == JsonLoads(ExtractJsonText(resp), value)
       IN  IF parsed = <<>>
           THEN first_attempt' = "unparseable" /\ UNCHANGED result_data
           ELSE first_attempt' = "parsed" /\ result_data' = parsed
    /\ qa_pc' = "fallback"
    /\ UNCHANGED <<doc_images, relevant_chunks, fallback_text, response>>
    /\ UNCHANGED <<storeVars, chunkVars, leapVars, pdfVars, searchVars>>

\* lines 111-125, when the first generation call answers with the text
\* resp whose JSON document, if it holds one, has the value given: the
\* fence extraction and json.loads
AnswerGenerate(resp, value) ==
    /\ qa_pc = "generate"
    /\ gen_calls' = gen_calls + 1
    /\ LET parsed == JsonLoads(ExtractJsonText(resp), value)
       IN  IF parsed = <<>>
           THEN first_attempt' = "unparseable" /\ qa_pc' = "fallback" /\ UNCHANGED result_data
           ELSE first_attempt' = "parsed" /\ qa_pc' = "prepare" /\ result_data' = parsed
    /\ UNCHANGED <<doc_images, relevant_chunks, fallback_text, response>>
    /\ UNCHANGED <<storeVars, chunkVars, leapVars, pdfVars, searchVars>>

\* lines 126-143: the fallback call
AnswerFallback(raises, answer_text) ==
    /\ qa_pc = "fallback"
    /\ gen_calls' = gen_calls + 1
    /\ IF raises
       THEN /\ qa_pc' = "returned"
            /\ response' = <<ErrorResponse("e2")>>
            /\ UNCHANGED <<result_data, fallback_text>>
       ELSE /\ qa_pc' = "prepare"
            /\ fallback_text' = <<answer_text>>
            /\ result_data' = <<FallbackResultData(answer_text, relevant_chunks)>>
            /\ UNCHANGED response
    /\ UNCHANGED <<doc_images, relevant_chunks, first_attempt>>
    /\ UNCHANGED <<storeVars, chunkVars, leapVars, pdfVars, searchVars>>

\* lines 145-162: result_data.get raises AttributeError, outside any try,
\* when result_data is not a dict
AnswerPrepare ==
    /\ qa_pc = "prepare"
    /\ IF result_data[1].kind = "object"
       THEN qa_pc' = "returned" /\ response' = <<PrepareResponse(result_data[1], relevant_chunks)>>
       ELSE qa_pc' = "raised" /\ UNCHANGED response
    /\ UNCHANGED <<doc_images, relevant_chunks, gen_calls, first_attempt, fallback_text,
                   result_data>>
    /\ UNCHANGED <<storeVars, chunkVars, leapVars, pdfVars, searchVars>>

\* the responses of the first call: a text, and the value of its JSON
\* document, which is looked at only when json.loads reaches it
NoJson == [kind |-> "null", answer |-> <<>>, sources |-> <<>>, confidence |-> <<>>]
ValuesOf(resp) ==
    IF JsonLoads(ExtractJsonText(resp), NoJson) = <<>> THEN {NoJson} ELSE JsonValues

\* The call reads a response only through what json.loads makes of it, so
\* of the responses with one parse result a single one is drawn.
ResponseCasesAll ==
    UNION { { <<resp, value>> : value \in ValuesOf(resp) } : resp \in ResponseTexts }
ParseOf(c) == JsonLoads(ExtractJsonText(c[1]), c[2])
ResponseCases ==
    { CHOOSE c \in ResponseCasesAll : ParseOf(c) = r :
        r \in { ParseOf(c) : c \in ResponseCasesAll } }

QANext ==
    \/ \E rc \in Retrievals : AnswerRetrieve(rc)
    \/ AnswerGenerateRaises
    \/ \E c \in ResponseCases : AnswerGenerate(c[1], c[2])
    \/ \E raises \in BOOLEAN, t \in {<<"F1">>, <<"F2">>} : AnswerFallback(raises, t)
    \/ AnswerPrepare

SpecQA == QAInit /\ [][QANext]_vars

(***************************************************************************)
(* categorize_with_keywords (src/main.py): the text is a sequence of       *)
(* characters, split into lines; a line starting with '#' opens a section, *)
(* and a section with a title and a non-blank body line goes to the first  *)
(* phase, in the order L, E, A, P, one of whose keywords occurs in its     *)
(* lower-cased title.                                                      *)
(***************************************************************************)
\* leap_keywords, lines 378-383, each keyword as its characters
leap_keywords ==
    [L |-> {
        <<"l", "o", "c", "a", "t", "e">>,
        <<"l", "o", "c", "a", "t", "i", "o", "n">>,
        <<"g", "e", "o", "g", "r", "a", "p", "h", "i", "c">>,
        <<"s", "i", "t", "e">>,
        <<"a", "r", "e", "a">>,
        <<"r", "e", "g", "i", "o", "n">>,
        <<"f", "a", "c", "i", "l", "i", "t", "y">>,
        <<"b", "i", "o", "m", "e">>
     },
     E |-> {
        <<"e", "v", "a", "l", "u", "a", "t", "e">>,
        <<"e", "v", "a", "l", "u", "a", "t", "i", "o", "n">>,
        <<"d", "e", "p", "e", "n", "d", "e", "n", "c", "y">>,
        <<"d", "e", "p", "e", "n", "d", "e", "n", "c", "i", "e", "s">>,
        <<"i", "m", "p", "a", "c", "t">>,
        <<"m", "a", "t", "e", "r", "i", "a", "l", "i", "t", "y">>,
        <<"e", "c", "o", "s", "y", "s", "t", "e", "m">>
     },
     A |-> {
        <<"a", "s", "s", "e", "s", "s">>,
        <<"a", "s", "s", "e", "s", "s", "m", "e", "n", "t">>,
        <<"r", "i", "s", "k">>,
        <<"o", "p", "p", "o", "r", "t", "u", "n", "i", "t", "y">>,
        <<"s", "c", "e", "n", "a", "r", "i", "o">>,
        <<"f", "i", "n", "a", "n", "c", "i", "a", "l", " ", "i", "m", "p", "a", "c", "t">>
     },
     P |-> {
        <<"p", "r", "e", "p", "a", "r", "e">>,
        <<"s", "t", "r", "a", "t", "e", "g", "y">>,
        <<"t", "a", "r", "g", "e", "t">>,
        <<"i", "n", "d", "i", "c", "a", "t", "o", "r">>,
        <<"g", "o", "v", "e", "r", "n", "a", "n", "c", "e">>,
        <<"m", "e", "t", "r", "i", "c">>,
        <<"a", "c", "t", "i", "o", "n", " ", "p", "l", "a", "n">>
     }]

\* the order in which the loops over leap_keywords and phase_names visit
\* the phases: the insertion order of the dict literals
PhaseOrder == <<"L", "E", "A", "P">>
Phases == {"L", "E", "A", "P"}

\* the lines a document of the model is made of: headings of one and of
\* several categories, of none, and without a title; a body line, an empty
\* line and a line of white space
LeapLines ==
    { <<"#", "#", " ", "L", "o", "c", "a", "t", "i", "o", "n">>,   \* "## Location"
      <<"#", "#", " ", "S", "t", "r", "a", "t", "e", "g", "y", " ", "a", "n", "d", " ", "T", "a", "r", "g", "e", "t", "s">>,   \* "## Strategy and Targets"
      <<"#", " ", "R", "i", "s", "k", " ", "a", "n", "d", " ", "I", "m", "p", "a", "c", "t">>,   \* "# Risk and Impact"
      <<"#", "#", " ", "O", "v", "e", "r", "v", "i", "e", "w">>,   \* "## Overview"
      <<"#", "#">>,   \* "##"
      <<"B", "o", "d", "y">>,   \* "Body"
      <<>>,   \* ""
      <<" ">> }   \* " "

\* the documents handed to the classifier: up to n of these lines joined
\* by newlines
RECURSIVE Join(_, _)
\* sep.join(pieces)
Join(pieces, sep) ==
    IF pieces = <<>> THEN <<>>
    ELSE IF Len(pieces) = 1 THEN pieces[1]
    ELSE pieces[1] \o sep \o Join(Tail(pieces), sep)

LeapTexts(n) ==
    { Join(ls, <<"\n">>) : ls \in UNION { [1..k -> LeapLines] : k \in 0..n } }

\* str.lower()
Uppers == <<"A", "B", "C", "D", "E", "F", "G", "H", "I", "J", "K", "L", "M",
            "N", "O", "P", "Q", "R", "S", "T", "U", "V", "W", "X", "Y", "Z">>
Lowers == <<"a", "b", "c", "d", "e", "f", "g", "h", "i", "j", "k", "l", "m",
            "n", "o", "p", "q", "r", "s", "t", "u", "v", "w", "x", "y", "z">>
LowerChar(c) ==
    IF \E i \in 1..Len(Uppers) : Uppers[i] = c
    THEN Lowers[CHOOSE i \in 1..Len(Uppers) : Uppers[i] = c]
    ELSE c
Lower(s) == [i \in 1..Len(s) |-> LowerChar(s[i])]

\* keyword in section_lower
Occurs(keyword, s) ==
    \E i \in 0..(Len(s) - Len(keyword)) : SubSeq(s, i + 1, i + Len(keyword)) = keyword

\* str.split('\n')
RECURSIVE SplitLinesAcc(_, _)
SplitLinesAcc(s, cur) ==
    IF s = <<>> THEN <<cur>>
    ELSE IF Head(s) = "\n" THEN <<cur>> \o SplitLinesAcc(Tail(s), <<>>)
    ELSE SplitLinesAcc(Tail(s), Append(cur, Head(s)))
SplitLines(s) == SplitLinesAcc(s, <<>>)

\* lines 385-390
EmptyLeapContent == [L |-> <<>>, E |-> <<>>, A |-> <<>>, P |-> <<>>]

\* lines 407-411: the first phase, in dict order, with a keyword in the
\* lower-cased title, or "none"
FirstPhaseFromMutant(section_lower, i) ==
    LET matching == { j \in i..Len(PhaseOrder) :
                        \E keyword \in leap_keywords[PhaseOrder[j]] :
                            Occurs(keyword, section_lower) }
    IN  IF matching = {} THEN "none" ELSE PhaseOrder[SetMax(matching)]

RECURSIVE FirstPhaseFrom(_, _)
FirstPhaseFrom(section_lower, i) ==
    IF i > Len(PhaseOrder) THEN "none"
    ELSE IF \E keyword \in leap_keywords[PhaseOrder[i]] : Occurs(keyword, section_lower)
    THEN PhaseOrder[i]
    ELSE FirstPhaseFrom(section_lower, i + 1)

\* a section counts only with a title and a non-blank body line (lines 401
\* and 421); current_section is <<>> for None and <<title>> otherwise
HasSection(current_section, current_content) ==
    current_section # <<>> /\ current_section[1] # <<>> /\ current_content # <<>>

\* lines 401-411 and 421-427: save the section that has ended
SaveSection(content, current_section, current_content) ==
    IF HasSection(current_section, current_content)
    THEN LET phase == FirstPhaseFrom(Lower(current_section[1]), 1)
             entry == <<"#", "#", "#", " ">> \o current_section[1] \o <<"\n", "\n">>
                         \o Join(current_content, <<"\n">>)
         IN  IF phase = "none" THEN content
             ELSE [content EXCEPT ![phase] = Append(@, entry)]
    ELSE content

\* lines 397-418: the loop over the lines
RECURSIVE KeywordLoop(_, _, _, _)
KeywordLoop(lines, current_section, current_content, content) ==
    IF lines = <<>> THEN SaveSection(content, current_section, current_content)
    ELSE LET line == Head(lines)
         IN  IF line # <<>> /\ Head(line) = "#"
             THEN KeywordLoop(Tail(lines), << Strip(RemoveHashes(line)) >>, <<>>,
                              SaveSection(content, current_section, current_content))
             ELSE KeywordLoop(Tail(lines), current_section,
                              IF Strip(line) # <<>> THEN Append(current_content, line)
                              ELSE current_content,
                              content)

CategorizeWithKeywords(full_text) ==
    KeywordLoop(SplitLines(full_text), <<>>, <<>>, EmptyLeapContent)

(***************************************************************************)
(* categorize_leap_content (src/main.py).  The values a model's JSON can   *)
(* put under a category key are Python values, kept with their type:       *)
(* <<"list", items>>, <<"str", characters>>, <<"int", n>>, <<"None">>.     *)
(***************************************************************************)
PyList(items) == <<"list", items>>
PyStr(chars) == <<"str", chars>>
PyInt(n) == <<"int", n>>
PyNone == <<"None">>

\* a section as a model writes it: "### M\n\nx"
ModelSection == <<"#", "#", "#", " ", "M", "\n", "\n", "x">>

\* the JSON documents a model answers with: objects with any of the four
\* keys missing, with lists of strings, and with values that are no lists
\* of strings; and documents that are no objects
LeapJsonObjects ==
    [kind : {"object"},
     L : { <<>>, <<PyList(<<>>)>>, <<PyList(<<PyStr(ModelSection)>>)>>,
           <<PyList(<<PyInt(1)>>)>>, <<PyStr(ModelSection)>>, <<PyNone>> },
     E : { <<>>, <<PyList(<<>>)>> },
     A : { <<>>, <<PyList(<<>>)>> },
     P : { <<>>, <<PyList(<<>>)>>, <<PyList(<<PyStr(ModelSection)>>)>> }]
LeapJsonOthers ==
    [kind : {"array", "string", "number", "null"}, L : {<<>>}, E : {<<>>}, A : {<<>>},
     P : {<<>>}]
LeapJsonValues == LeapJsonObjects \cup LeapJsonOthers

\* the texts a model answers with: a JSON document bare, fenced and padded,
\* and texts that hold none
LeapResponseTexts ==
    { <<"JSON">>, <<"FENCE_JSON", "JSON", "FENCE">>, <<"FENCE", " ", "JSON", "FENCE">>,
      <<"junk">>, <<"FENCE_JSON", "junk", "FENCE">>, <<>> }

AiModels == {"gemini", "perplexity", "keyword"}

\* what makes the primary strategy raise before it has a response text:
\* lines 198-200 and 248 (gemini), 277-279, 342-352 (perplexity)
PrimaryFailures(model) ==
    IF model = "gemini" THEN {"no_api_key", "network_error"}
    ELSE {"no_api_key", "network_error", "non_200"}

\* lines 261-266 and 364-369: leap_data.get(phase, [])
PrimaryLeapContent(data) ==
    [phase \in Phases |-> DictGet(data[phase], PyList(<<>>))]

\* the dict categorize_with_keywords returns, as Python values
KeywordLeapContent(full_text) ==
    LET r == CategorizeWithKeywords(full_text)
    IN  [phase \in Phases |->
            PyList([i \in 1..Len(r[phase]) |-> PyStr(r[phase][i])])]

\* line 181: if leap_content[phase]
Truthy(v) ==
    CASE v[1] \in {"list", "str"} -> v[2] # <<>>
      [] v[1] = "int" -> v[2] # 0
      [] OTHER -> FALSE

\* line 182: '\n\n'.join(v) raises TypeError unless v is a string or a
\* list of strings
JoinRaises(v) ==
    \/ v[1] \in {"int", "None"}
    \/ v[1] = "list" /\ \E i \in 1..Len(v[2]) : v[2][i][1] # "str"

\* line 182: the text written; the items of a string are its characters
JoinSections(v) ==
    IF v[1] = "list" THEN Join([i \in 1..Len(v[2]) |-> v[2][i][2]], <<"\n", "\n">>)
    ELSE Join([i \in 1..Len(v[2]) |-> <<v[2][i]>>], <<"\n", "\n">>)

\* line 187: len(leap_content[phase]) raises TypeError
LenRaises(v) == v[1] \in {"int", "None"}

LeapInit ==
    /\ leap_text \in LeapTexts(MaxLeapLines)
    /\ ai_model \in AiModels
    /\ leap_pc = "start"
    /\ leap_primary = "none"
    /\ leap_data = <<>>
    /\ leap_content = [phase \in Phases |-> PyList(<<>>)]
    /\ leap_strategy = "none"
    /\ leap_idx = 0
    /\ leap_disk = [phase \in Phases |-> <<>>]
    /\ leap_files = <<>>
    /\ kw_text = <<>> /\ kw_pc = "off" /\ kw_result = <<>>
    /\ StoreOff
    /\ ChunkOff
    /\ QAOff
    /\ PdfOff
    /\ SearchOff

\* lines 145-160, when the primary strategy raises before it has a response
\* text: the handler falls back to the keywords
CategorizePrimaryRaises(reason) ==
    /\ leap_pc = "start"
    /\ ai_model \in {"gemini", "perplexity"}
    /\ reason \in PrimaryFailures(ai_model)
    /\ leap_primary' = reason
    /\ leap_content' = KeywordLeapContent(leap_text)
    /\ leap_strategy' = "keyword"
    /\ leap_pc' = "write"
    /\ UNCHANGED <<leap_text, ai_model, leap_data, leap_idx, leap_disk, leap_files>>
    /\ UNCHANGED <<kw_text, kw_pc, kw_result>>
    /\ UNCHANGED <<storeVars, chunkVars, qaVars, pdfVars, searchVars>>

\* lines 145-160, when the model answers with the text resp whose JSON
\* document has the value given: the fence extraction, json.loads (lines
\* 249-258, 352-361), leap_data.get, which raises AttributeError on a value
\* that is no dict, and the handler's fallback to the keywords
CategorizePrimaryAnswers(resp, value) ==
    /\ leap_pc = "start"
    /\ ai_model \in {"gemini", "perplexity"}
    /\ LET parsed == JsonLoads(ExtractJsonText(resp), value)
       IN  IF parsed = <<>> \/ value.kind # "object"
           THEN /\ leap_primary' = IF parsed = <<>> THEN "invalid_json" ELSE "not_a_dict"
                /\ leap_content' = KeywordLeapContent(leap_text)
                /\ leap_strategy' = "keyword"
                /\ UNCHANGED leap_data
           ELSE /\ leap_primary' = "answered"
                /\ leap_data' = parsed
                /\ leap_content' = PrimaryLeapContent(value)
                /\ leap_strategy' = ai_model
    /\ leap_pc' = "write"
    /\ UNCHANGED <<leap_text, ai_model, leap_idx, leap_disk, leap_files>>
    /\ UNCHANGED <<kw_text, kw_pc, kw_result>>
    /\ UNCHANGED <<storeVars, chunkVars, qaVars, pdfVars, searchVars>>

\* lines 161-163: any other ai_model
CategorizeKeywordOnly ==
    /\ leap_pc = "start"
    /\ ai_model \notin {"gemini", "perplexity"}
    /\ leap_content' = KeywordLeapContent(leap_text)
    /\ leap_strategy' = "keyword"
    /\ leap_pc' = "write"
    /\ UNCHANGED <<leap_text, ai_model, leap_primary, leap_data, leap_idx, leap_disk,
                   leap_files>>
    /\ UNCHANGED <<kw_text, kw_pc, kw_result>>
    /\ UNCHANGED <<storeVars, chunkVars, qaVars, pdfVars, searchVars>>

\* lines 174-189: one turn of the loop over the phases.  The file is opened
\* for writing and gets its header; then the sections or the marker; the
\* join (line 182) and the len (line 187) raise TypeError, outside any try,
\* on values they cannot take.
WritePhaseFile ==
    /\ leap_pc = "write"
    /\ LET phase == PhaseOrder[leap_idx + 1]
           v == leap_content[phase]
       IN  IF Truthy(v) /\ JoinRaises(v)
           THEN /\ leap_disk' = [leap_disk EXCEPT ![phase] = << <<"header">> >>]
                /\ leap_pc' = "raised"
                /\ UNCHANGED <<leap_idx, leap_files>>
           ELSE /\ leap_disk' = [leap_disk EXCEPT ![phase] =
                                    IF Truthy(v)
                                    THEN << <<"header", "sections", JoinSections(v)>> >>
                                    ELSE << <<"header", "marker">> >>]
                /\ leap_files' = Append(leap_files, phase)
                /\ IF LenRaises(v)
                   THEN leap_pc' = "raised" /\ UNCHANGED leap_idx
                   ELSE /\ leap_idx' = leap_idx + 1
                        /\ leap_pc' = IF leap_idx + 1 = Len(PhaseOrder)
                                      THEN "returned" ELSE "write"
    /\ UNCHANGED <<leap_text, ai_model, leap_primary, leap_data, leap_content,
                   leap_strategy>>
    /\ UNCHANGED <<kw_text, kw_pc, kw_result>>
    /\ UNCHANGED <<storeVars, chunkVars, qaVars, pdfVars, searchVars>>

\* the value of a response text's JSON document is looked at only when
\* json.loads reaches it
LeapNoJson == [kind |-> "null", L |-> <<>>, E |-> <<>>, A |-> <<>>, P |-> <<>>]
LeapValuesOf(resp) ==
    IF JsonLoads(ExtractJsonText(resp), LeapNoJson) = <<>> THEN {LeapNoJson}
    ELSE LeapJsonValues

LeapNext ==
    \/ \E reason \in {"no_api_key", "network_error", "non_200"} :
          CategorizePrimaryRaises(reason)
    \/ \E resp \in LeapResponseTexts : \E value \in LeapValuesOf(resp) :
          CategorizePrimaryAnswers(resp, value)
    \/ CategorizeKeywordOnly
    \/ WritePhaseFile

SpecLeap == LeapInit /\ [][LeapNext]_vars

(***************************************************************************)
(* categorize_with_keywords on its own, applied to every document of the   *)
(* model.                                                                  *)
(***************************************************************************)
KeywordsInit ==
    /\ kw_text \in LeapTexts(MaxLines)
    /\ kw_pc = "input"
    /\ kw_result = <<>>
    /\ leap_text = <<>> /\ ai_model = "none" /\ leap_pc = "off" /\ leap_primary = "none"
    /\ leap_data = <<>> /\ leap_content = <<>> /\ leap_strategy = "none"
    /\ leap_idx = 0 /\ leap_disk = <<>> /\ leap_files = <<>>
    /\ StoreOff
    /\ ChunkOff
    /\ QAOff
    /\ PdfOff
    /\ SearchOff

CategorizeWithKeywordsCall ==
    /\ kw_pc = "input"
    /\ kw_result' = <<CategorizeWithKeywords(kw_text)>>
    /\ kw_pc' = "done"
    /\ UNCHANGED kw_text
    /\ UNCHANGED <<leap_text, ai_model, leap_pc, leap_primary, leap_data, leap_content,
                   leap_strategy, leap_idx, leap_disk, leap_files>>
    /\ UNCHANGED <<storeVars, chunkVars, qaVars, pdfVars, searchVars>>

KeywordsNext == CategorizeWithKeywordsCall

SpecKeywords == KeywordsInit /\ [][KeywordsNext]_vars

(***************************************************************************)
(* process_pdf_to_markdown (src/main.py), steps 2 and 3: the pictures of   *)
(* the document are saved one by one, then the image placeholders of the   *)
(* text are replaced.  The text is a sequence of tokens: the placeholder   *)
(* '<!-- image -->', other text, and the image tags put in.                *)
(***************************************************************************)
Placeholder == <<"<!-- image -->">>
OtherText == <<"text">>
ImgTag(n) == <<"![Image N](pdf_name_images/image_N.png)", n>>

\* what happens to one picture inside the try of lines 65-78: its image is
\* saved; get_image or save raises; or get_image returns no image (or the
\* picture has neither get_image nor image) and nothing is saved
PictureOutcomes == {"saved", "raises", "no_image"}

PdfTexts == UNION { [1..n -> {Placeholder, OtherText}] : n \in 0..MaxPdfTokens }
PdfPictures == UNION { [1..n -> PictureOutcomes] : n \in 0..MaxPictures }

\* '<!-- image -->' in s
HasPlaceholder(s) == \E i \in 1..Len(s) : s[i] = Placeholder

\* s.replace('<!-- image -->', img_tag, 1)
ReplaceFirst(s, img_tag) ==
    IF HasPlaceholder(s)
    THEN LET first == CHOOSE i \in 1..Len(s) :
                          s[i] = Placeholder /\ \A j \in 1..(i - 1) : s[j] # Placeholder
         IN  [s EXCEPT ![first] = img_tag]
    ELSE s

PdfInit ==
    /\ pdf_text \in PdfTexts
    /\ pdf_pictures \in PdfPictures
    /\ pdf_pc = "pictures"
    /\ pdf_idx = 0
    /\ image_counter = 0
    /\ pdf_disk = {}
    /\ global_image_counter = 0
    /\ full_text_with_images = <<>>
    /\ SearchOff
    /\ StoreOff
    /\ ChunkOff
    /\ QAOff
    /\ LeapOff

\* lines 64-78: one turn of the loop over the pictures
PdfSavePicture ==
    /\ pdf_pc = "pictures"
    /\ pdf_idx < Len(pdf_pictures)
    /\ pdf_idx' = pdf_idx + 1
    /\ LET outcome == pdf_pictures[pdf_idx + 1]
       IN  /\ image_counter' = IF outcome = "raises" THEN image_counter
                               ELSE image_counter + 1
           /\ pdf_disk' = IF outcome = "saved" THEN pdf_disk \cup {image_counter + 1}
                          ELSE pdf_disk
    /\ UNCHANGED <<pdf_text, pdf_pictures, pdf_pc, global_image_counter,
                   full_text_with_images>>
    /\ UNCHANGED <<storeVars, chunkVars, qaVars, leapVars, searchVars>>

\* lines 80-88: after the last picture (or with no pictures)
PdfStartReplacing ==
    /\ pdf_pc = "pictures"
    /\ pdf_idx = Len(pdf_pictures)
    /\ full_text_with_images' = pdf_text
    /\ global_image_counter' = 0
    /\ pdf_pc' = "replace"
    /\ UNCHANGED <<pdf_text, pdf_pictures, pdf_idx, image_counter, pdf_disk>>
    /\ UNCHANGED <<storeVars, chunkVars, qaVars, leapVars, searchVars>>

\* lines 91-97: one turn of the while loop, or its end
PdfReplacePlaceholder ==
    /\ pdf_pc = "replace"
    /\ IF HasPlaceholder(full_text_with_images) /\ global_image_counter < image_counter
       THEN /\ global_image_counter' = global_image_counter + 1
            /\ full_text_with_images' =
                  ReplaceFirst(full_text_with_images, ImgTag(global_image_counter + 1))
            /\ UNCHANGED pdf_pc
       ELSE /\ pdf_pc' = "done"
            /\ UNCHANGED <<global_image_counter, full_text_with_images>>
    /\ UNCHANGED <<pdf_text, pdf_pictures, pdf_idx, image_counter, pdf_disk>>
    /\ UNCHANGED <<storeVars, chunkVars, qaVars, leapVars, searchVars>>

PdfNext ==
    \/ PdfSavePicture
    \/ PdfStartReplacing
    \/ PdfReplacePlaceholder

SpecPdf == PdfInit /\ [][PdfNext]_vars

(***************************************************************************)
(* search_similar_chunks (src/supabase_utils.py).  The store holds chunk   *)
(* rows, each with its similarity to the query in hundredths.  The         *)
(* similarity function match_document_chunks is SQL of the store, modelled *)
(* from its contract: the rows at or above the threshold, by similarity    *)
(* descending, ties in insertion order, at most match_count of them.       *)
(***************************************************************************)
Similarities == {50, 80, 95}
Thresholds == {70, 90}
SearchRow(i, sim) ==
    [text |-> <<"chunk", i>>, heading |-> <<"heading", i>>, similarity |-> sim,
     document_id |-> ((i - 1) % 2) + 1, filename |-> <<"file", ((i - 1) % 2) + 1>>]
SearchStores ==
    { [i \in 1..Len(sims) |-> SearchRow(i, sims[i])] :
        sims \in UNION { [1..n -> Similarities] : n \in 0..MaxSearchRows } }

\* the rows by similarity descending, ties in insertion order
RECURSIVE RankRows(_)
RankRows(rows) ==
    IF rows = <<>> THEN <<>>
    ELSE LET best == CHOOSE i \in 1..Len(rows) :
                        /\ \A j \in 1..Len(rows) : rows[j].similarity <= rows[i].similarity
                        /\ \A j \in 1..(i - 1) : rows[j].similarity < rows[i].similarity
         IN  <<rows[best]>>
                \o RankRows(SubSeq(rows, 1, best - 1) \o SubSeq(rows, best + 1, Len(rows)))

MatchDocumentChunks(rows, match_threshold, match_count) ==
    Take(RankRows(SelectSeq(rows, LAMBDA r : r.similarity >= match_threshold)),
         match_count)

\* the images get_document_images returns for a document: its rows, or
\* the empty list when the select failed
SearchImages(document_id, ok) ==
    IF ok /\ document_id = 1 THEN << <<"image", 1, 1>> >> ELSE <<>>

\* lines 172-186: the result rows, in their order, each with the images of
\* its document
EnhanceResultsMutant(data, images_ok) ==
    [i \in 1..Len(data) |->
        [text |-> data[Len(data) + 1 - i].text, heading |-> data[Len(data) + 1 - i].heading,
         similarity |-> data[Len(data) + 1 - i].similarity,
         document_id |-> data[Len(data) + 1 - i].document_id,
         filename |-> data[Len(data) + 1 - i].filename,
         images |-> SearchImages(data[Len(data) + 1 - i].document_id, images_ok)]]

EnhanceResults(data, images_ok) ==
    [i \in 1..Len(data) |->
        [text |-> data[i].text, heading |-> data[i].heading,
         similarity |-> data[i].similarity, document_id |-> data[i].document_id,
         filename |-> data[i].filename,
         images |-> SearchImages(data[i].document_id, images_ok)]]

\* lines 188-190: except Exception: return []
SearchCaughtMutant == [pc |-> "raised", result |-> <<>>]

SearchCaught == [pc |-> "returned", result |-> <<>>]

SearchInit ==
    /\ search_rows \in SearchStores
    /\ search_limit \in 0..MaxLimit
    /\ search_threshold \in Thresholds
    /\ search_pc = "start"
    /\ search_failure = "none"
    /\ search_result = <<>>
    /\ PdfOff
    /\ StoreOff
    /\ ChunkOff
    /\ QAOff
    /\ LeapOff

\* lines 156-190, the whole call.  failure: "none"; "embedding"
\* (generate_embedding returned [], and the similarity call with an empty
\* query vector raises or matches nothing); "rpc" (the similarity call
\* raised); "data" (the call answered without rows: result.data is None).
SearchSimilarChunks(failure, empty_vector_raises, images_ok) ==
    /\ search_pc = "start"
    /\ search_failure' = failure
    /\ LET raised == \/ failure \in {"rpc", "data"}
                     \/ failure = "embedding" /\ empty_vector_raises
           data == IF failure = "embedding" THEN <<>>
                   ELSE MatchDocumentChunks(search_rows, search_threshold, search_limit)
       IN  IF raised
           THEN search_pc' = SearchCaught.pc /\ search_result' = SearchCaught.result
           ELSE search_pc' = "returned" /\ search_result' = EnhanceResults(data, images_ok)
    /\ UNCHANGED <<search_rows, search_limit, search_threshold>>
    /\ UNCHANGED <<storeVars, chunkVars, qaVars, leapVars, pdfVars>>

SearchNext ==
    \E failure \in {"none", "embedding", "rpc", "data"}, empty_vector_raises \in BOOLEAN,
       images_ok \in BOOLEAN :
        SearchSimilarChunks(failure, empty_vector_raises, images_ok)

SpecSearch == SearchInit /\ [][SearchNext]_vars

(***************************************************************************)
(* Claims about _create_chunks.                                            *)
(***************************************************************************)
Range(f) == { f[i] : i \in DOMAIN f }

RECURSIVE BodyLoop(_, _, _)
\* the section bodies _create_chunks hands to _split_large_text, in order
BodyLoop(sections, current_text, out) ==
    LET flushed == IF Strip(current_text) # <<>> THEN Append(out, current_text) ELSE out
    IN  IF sections = <<>> THEN flushed
        ELSE IF IsHeadingSection(Head(sections))
             THEN BodyLoop(Tail(sections), <<>>, flushed)
             ELSE BodyLoop(Tail(sections), current_text \o Head(sections), out)

\* the '\n\n'-delimited pieces of the section bodies of a text
SectionParagraphs(txt) ==
    UNION { Range(SplitParagraphs(Strip(b))) : b \in Range(BodyLoop(ReSplit(txt), <<>>, <<>>)) }

\* C3: every chunk has len(text) <= chunk_size, or its text is exactly one
\* paragraph of a section body of the text (a paragraph counts with or
\* without its surrounding whitespace).
C3_ChunkFitsOrIsOneParagraph ==
    cc_pc = "done" =>
        \A i \in 1..Len(cc_chunks) :
            \/ Len(cc_chunks[i].text) <= cc_size
            \/ \E para \in SectionParagraphs(cc_text) :
                  cc_chunks[i].text = para \/ cc_chunks[i].text = Strip(para)

\* C4: no chunk returned by _create_chunks is empty after stripping
\* whitespace.
C4_NoEmptyChunk ==
    cc_pc = "done" => \A i \in 1..Len(cc_chunks) : Strip(cc_chunks[i].text) # <<>>

RECURSIVE SplitOnAcc(_, _, _)
\* the pieces of s between the characters of the set seps (empty pieces kept)
SplitOnAcc(s, seps, cur) ==
    IF s = <<>> THEN <<cur>>
    ELSE IF Head(s) \in seps
         THEN <<cur>> \o SplitOnAcc(Tail(s), seps, <<>>)
         ELSE SplitOnAcc(Tail(s), seps, Append(cur, Head(s)))

\* whitespace normalisation: the words of s
Words(s) == SelectSeq(SplitOnAcc(s, {" ", "\n"}, <<>>), LAMBDA w : w # <<>>)

\* the words that hold a character other than the heading marker
ContentWords(s) == SelectSeq(Words(s), LAMBDA w : \E k \in 1..Len(w) : w[k] # "#")

\* a heading line: it starts with two or three '#' followed by whitespace or
\* by the end of the line
IsHeadingLine(line) ==
    LET h == HashRun(line, 1)
    IN  h \in {2, 3} /\ (Len(line) = h \/ IsSpace(line[h + 1]))

RECURSIVE Flatten(_, _)
\* the pieces of a list joined with sep between them
Flatten(pieces, sep) ==
    IF pieces = <<>> THEN <<>>
    ELSE IF Len(pieces) = 1 THEN Head(pieces)
    ELSE Head(pieces) \o sep \o Flatten(Tail(pieces), sep)

\* the paragraph content of a text: its lines that are not heading lines
BodyContent(txt) ==
    Flatten(SelectSeq(SplitOnAcc(txt, {"\n"}, <<>>), LAMBDA l : ~IsHeadingLine(l)), <<"\n">>)

ChunkTexts == [i \in 1..Len(cc_chunks) |-> cc_chunks[i].text]

\* C5: the texts of the chunks, concatenated in output order and whitespace-
\* normalised, are the paragraph (non-heading) content of the text in its
\* original order.  Both sides are compared on their words that hold a
\* character other than '#', so a bare heading marker counts neither as
\* content nor against it.
C5_ChunksReconstructBody ==
    cc_pc = "done" =>
        ContentWords(Flatten(ChunkTexts, <<"\n", "\n">>)) = ContentWords(BodyContent(cc_text))

\* the heading a heading line gives: what follows its marker, stripped
TitleOfLine(line) == Strip(SubSeq(line, HashRun(line, 1) + 1, Len(line)))

\* the words (those that hold a character other than '#') of the lines
\* that are no heading lines, in text order, each with the heading of the nearest heading line before it (the empty
\* heading before the first)
RECURSIVE WordsUnderHeadings(_, _)
WordsUnderHeadings(lines, heading) ==
    IF lines = <<>> THEN <<>>
    ELSE IF IsHeadingLine(Head(lines))
    THEN WordsUnderHeadings(Tail(lines), TitleOfLine(Head(lines)))
    ELSE [i \in 1..Len(ContentWords(Head(lines))) |-> <<ContentWords(Head(lines))[i], heading>>]
            \o WordsUnderHeadings(Tail(lines), heading)

\* the words of the chunks, in output order, each with its chunk's heading
RECURSIVE WordsOfChunks(_)
WordsOfChunks(chunks) ==
    IF chunks = <<>> THEN <<>>
    ELSE [i \in 1..Len(ContentWords(Head(chunks).text)) |->
              <<ContentWords(Head(chunks).text)[i], Head(chunks).heading>>]
            \o WordsOfChunks(Tail(chunks))

\* a is b with some entries left out
RECURSIVE IsSubsequence(_, _)
IsSubsequence(a, b) ==
    IF a = <<>> THEN TRUE
    ELSE IF b = <<>> THEN FALSE
    ELSE IF Head(a) = Head(b) THEN IsSubsequence(Tail(a), Tail(b))
    ELSE IsSubsequence(a, Tail(b))

\* C27: every chunk carries the heading of the nearest level-2 or level-3
\* heading line before its text (the empty heading before the first), and
\* the chunks come in the order of their text: the words of the chunks with
\* their headings occur, in this order, among the words of the text with
\* the headings of their sections.
C27_ChunksCarrySectionHeading ==
    cc_pc = "done" =>
        IsSubsequence(WordsOfChunks(cc_chunks),
                      WordsUnderHeadings(SplitOnAcc(cc_text, {"\n"}, <<>>), <<>>))

(***************************************************************************)
(* Claims about answer_question.                                           *)
(***************************************************************************)
ResponseKeys == {"answer", "sources", "images", "confidence", "chunks_used"}

\* C6: answer_question never raises to its caller, whatever retrieval
\* returns and whatever the generation model answers; what it returns is a
\* dict with the keys answer, sources, images, confidence and chunks_used.
C6_NeverRaises ==
    /\ qa_pc # "raised"
    /\ qa_pc = "returned" => DOMAIN response[1] = ResponseKeys

\* C7: once retrieval has returned no chunks, answer_question has returned
\* the fixed no-information response, with confidence low and empty sources
\* and images, and no generation call has been made.
C7_EmptyRetrievalShortCircuits ==
    (qa_pc \notin {"off", "start"} /\ relevant_chunks = <<>>) =>
        /\ qa_pc = "returned"
        /\ gen_calls = 0
        /\ response[1].answer = NoInformationResponse.answer
        /\ response[1].confidence = "low"
        /\ response[1].sources = <<>>
        /\ response[1].images = <<>>

\* C7 witness: the call has returned on an empty retrieval while images
\* are stored.
C7_Witness ==
    /\ qa_pc = "returned"
    /\ relevant_chunks = <<>>
    /\ \E d \in DocIds : doc_images[d] # <<>>

\* C8: the confidence of every response returned is low, medium or high.
C8_ConfidenceInRange ==
    qa_pc = "returned" => response[1].confidence \in {"low", "medium", "high"}

\* C9: when retrieval is not empty and the first response could not be
\* parsed as JSON, a second generation call is made, and when that call
\* succeeds the response has its text as answer, the headings of the
\* retrieved chunks in retrieval order as sources, and confidence medium.
C9_FallbackOnUnparseable ==
    (relevant_chunks # <<>> /\ first_attempt = "unparseable") =>
        /\ qa_pc \in {"fallback", "prepare", "returned"}
        /\ qa_pc = "fallback" => gen_calls = 1
        /\ qa_pc = "returned" =>
              /\ gen_calls = 2
              /\ fallback_text # <<>> =>
                    /\ response[1].answer = fallback_text[1]
                    /\ response[1].sources =
                          [i \in 1..Len(relevant_chunks) |-> relevant_chunks[i].heading]
                    /\ response[1].confidence = "medium"

\* C9 witness: a returned degraded answer over two chunks with different
\* headings.
C9_Witness ==
    /\ qa_pc = "returned"
    /\ first_attempt = "unparseable"
    /\ fallback_text # <<>>
    /\ Len(relevant_chunks) >= 2
    /\ relevant_chunks[1].heading # relevant_chunks[2].heading

\* C10: when retrieval is not empty and both the first attempt and the
\* fallback call fail, the response has an explicit error message as answer,
\* confidence low, and empty sources and images.
C10_ErrorResponseWhenBothFail ==
    (qa_pc = "returned" /\ relevant_chunks # <<>>
        /\ first_attempt \in {"raised", "unparseable"} /\ fallback_text = <<>>) =>
        /\ response[1].answer[1] = "Error generating answer: "
        /\ response[1].confidence = "low"
        /\ response[1].sources = <<>>
        /\ response[1].images = <<>>

\* C10 witness: both calls failed although the retrieved chunk has images.
C10_Witness ==
    /\ qa_pc = "returned"
    /\ relevant_chunks # <<>>
    /\ relevant_chunks[1].images # <<>>
    /\ first_attempt = "raised"
    /\ fallback_text = <<>>
    /\ gen_calls = 2

\* the number of images the chunks ranked before k may contribute, two each
RECURSIVE ContributedBefore(_, _)
ContributedBefore(chunks, k) ==
    IF k <= 1 THEN 0
    ELSE ContributedBefore(chunks, k - 1)
         + (IF Len(chunks[k - 1].images) < 2 THEN Len(chunks[k - 1].images) ELSE 2)

\* C11: the images list of every response has at most 5 entries, and each
\* entry is the first or second image of a retrieved chunk, standing after
\* every contribution of the chunks ranked higher and before every
\* contribution of the chunks ranked lower.
C11_ImagesCappedInRankOrder ==
    qa_pc = "returned" =>
        LET imgs == response[1].images
            chunks == relevant_chunks
        IN  /\ Len(imgs) <= 5
            /\ \A i \in 1..Len(imgs) :
                  \E k \in 1..Len(chunks) :
                     LET j == i - ContributedBefore(chunks, k)
                     IN  /\ j \in 1..2
                         /\ j <= Len(chunks[k].images)
                         /\ imgs[i] = chunks[k].images[j]

\* C11 witness: three chunks were retrieved, each with three images, and the
\* response returned for them lists five images.
C11_Witness ==
    /\ qa_pc = "returned"
    /\ Len(relevant_chunks) = 3
    /\ \A k \in 1..3 : Len(relevant_chunks[k].images) = 3
    /\ Len(response[1].images) = 5

\* C12: no image appears more than once in the images list of a response.
C12_ImagesAreAUnion ==
    qa_pc = "returned" =>
        \A i \in 1..Len(response[1].images), j \in 1..Len(response[1].images) :
            i # j => response[1].images[i] # response[1].images[j]

\* C28: in every response returned, chunks_used is the number of chunks
\* the retriever returned for the question.
C28_ChunksUsedIsRetrieved ==
    qa_pc = "returned" => response[1].chunks_used = Len(relevant_chunks)

\* C30: one call invokes the generation model at most twice, never before
\* retrieval has returned chunks, and a second time only after the first
\* attempt raised or gave unparseable output: a first response that parsed
\* is followed by no second call.
C30_AtMostTwoGenerations ==
    /\ gen_calls <= 2
    /\ gen_calls >= 1 => (qa_pc # "start" /\ relevant_chunks # <<>>)
    /\ gen_calls = 2 => first_attempt \in {"raised", "unparseable"}
    /\ first_attempt = "parsed" => gen_calls = 1
    /\ qa_pc = "fallback" => first_attempt \in {"raised", "unparseable"}

\* C30 witness: a call has returned after a first response that parsed, and
\* the model was invoked once.
C30_Witness ==
    /\ qa_pc = "returned"
    /\ first_attempt = "parsed"
    /\ gen_calls = 1
    /\ response[1].chunks_used >= 2

(***************************************************************************)
(* Claims about categorize_leap_content.                                   *)
(***************************************************************************)
\* a category entry of the model's JSON object that is missing or a list of
\* strings
WellFormedCategory(entry) ==
    \/ entry = <<>>
    \/ /\ entry[1][1] = "list"
       /\ \A i \in 1..Len(entry[1][2]) : entry[1][2][i][1] = "str"

\* C13: with ai_model gemini or perplexity the call never raises; when the
\* primary strategy failed (no credential, network error, non-200 response,
\* invalid JSON, a JSON value that is no object, category values that are
\* no lists of strings) the assignment is the keyword strategy's; and the
\* call returns with the four phase files written.
C13_PrimaryFailureFallsBack ==
    ai_model \in {"gemini", "perplexity"} =>
        /\ leap_pc # "raised"
        /\ leap_pc \in {"write", "returned"} =>
              ((\/ leap_primary # "answered"
                \/ \E phase \in Phases : ~WellFormedCategory(leap_data[1][phase]))
                  => leap_strategy = "keyword")
        /\ leap_pc = "returned" =>
              /\ \A phase \in Phases : leap_disk[phase] # <<>>
              /\ Len(leap_files) = 4

\* C14: when the model answered with a JSON object that lacks one of the
\* four category keys, the assignment in use is the one the keyword
\* strategy computes for the text.
C14_MissingKeyFallsBack ==
    (/\ leap_pc \in {"write", "returned", "raised"}
     /\ leap_primary = "answered"
     /\ \E phase \in Phases : leap_data[1][phase] = <<>>) =>
        \A phase \in Phases :
            /\ leap_content[phase][1] = "list"
            /\ leap_content[phase] = KeywordLeapContent(leap_text)[phase]

\* C15: every phase assignment has the four keys L, E, A, P; every call
\* writes the four phase files (none ends with an exception); and a phase
\* whose list is empty has the marker in its file.
C15_FourKeysFourFiles ==
    leap_pc # "off" =>
        /\ DOMAIN leap_content = Phases
        /\ leap_pc # "raised"
        /\ leap_pc = "returned" =>
              \A phase \in Phases :
                 /\ leap_disk[phase] # <<>>
                 /\ (leap_content[phase][1] = "list" /\ leap_content[phase][2] = <<>>)
                       => leap_disk[phase][1] = <<"header", "marker">>

(***************************************************************************)
(* Claims about categorize_with_keywords.                                  *)
(***************************************************************************)
\* the title of an entry "### title\n\nbody"
EntryTitle(entry) ==
    LET nl == CHOOSE i \in 1..Len(entry) :
                  entry[i] = "\n" /\ \A j \in 1..(i - 1) : entry[j] # "\n"
    IN  SubSeq(entry, 5, nl - 1)

HasKeywordOf(phase, title) ==
    \E keyword \in leap_keywords[phase] : Occurs(keyword, Lower(title))

\* the heading lines of the text: the lines that start with '#'
HeadingLinesOf(full_text) ==
    SelectSeq(SplitLines(full_text), LAMBDA line : line # <<>> /\ Head(line) = "#")

\* how many entries of the phase lists carry the title
EntriesTitled(result, title) ==
    LET count(phase) == Cardinality({ n \in 1..Len(result[phase]) :
                                         EntryTitle(result[phase][n]) = title })
    IN  count("L") + count("E") + count("A") + count("P")

\* C16: every entry of phase list X has a title with a keyword of X and no
\* keyword of a category before X in the order L, E, A, P (so a title
\* without keyword is in no list); no entry is in two phase lists; and there
\* are no more entries than sections in the text.
C16_FirstMatchingCategory ==
    kw_pc = "done" =>
        LET result == kw_result[1]
        IN  /\ \A i \in 1..Len(PhaseOrder) : \A n \in 1..Len(result[PhaseOrder[i]]) :
                  LET title == EntryTitle(result[PhaseOrder[i]][n])
                  IN  /\ HasKeywordOf(PhaseOrder[i], title)
                      /\ \A j \in 1..(i - 1) : ~HasKeywordOf(PhaseOrder[j], title)
            /\ \A i \in 1..Len(PhaseOrder), j \in 1..Len(PhaseOrder) :
                  i # j => \A n \in 1..Len(result[PhaseOrder[i]]),
                              m \in 1..Len(result[PhaseOrder[j]]) :
                              result[PhaseOrder[i]][n] # result[PhaseOrder[j]][m]
            /\ Len(result.L) + Len(result.E) + Len(result.A) + Len(result.P)
                  <= Len(HeadingLinesOf(kw_text))

\* C16 witness: a section whose title has a keyword of Evaluate and one of
\* Assess is in the Evaluate list, and the text has a second section.
C16_Witness ==
    /\ kw_pc = "done"
    /\ \E n \in 1..Len(kw_result[1].E) :
          HasKeywordOf("A", EntryTitle(kw_result[1].E[n]))
    /\ kw_result[1].A = <<>>
    /\ Len(HeadingLinesOf(kw_text)) = 2

\* C17: every section of the text whose heading has a keyword of some
\* category is in a phase list, whatever its body and position: for every
\* such title there are as many entries as heading lines with that title.
C17_EveryKeywordSectionAssigned ==
    kw_pc = "done" =>
        \A k \in 1..Len(HeadingLinesOf(kw_text)) :
            LET title == Strip(RemoveHashes(HeadingLinesOf(kw_text)[k]))
            IN  (\E phase \in Phases : HasKeywordOf(phase, title)) =>
                    EntriesTitled(kw_result[1], title)
                      = Cardinality({ m \in 1..Len(HeadingLinesOf(kw_text)) :
                            Strip(RemoveHashes(HeadingLinesOf(kw_text)[m])) = title })

(***************************************************************************)
(* Claims about the store.                                                 *)
(***************************************************************************)
\* the (text, heading) pairs of the chunk rows of a document, in row order
StoredChunksOf(document_id) ==
    LET rows == SelectRows(document_chunks, "document_id", document_id)
    IN  [i \in 1..Len(rows) |-> [text |-> rows[i].text, heading |-> rows[i].heading]]

\* C1: when store_document has returned successfully, the chunk rows stored
\* for that document are exactly the chunks of this latest run, whatever
\* runs (complete or failed part-way) came before for the same filename.
C1_ChunksAreLatestRun ==
    \A p \in Procs :
        (frame[p].op = "store" /\ frame[p].pc = "returned")
            => StoredChunksOf(frame[p].doc_id) = frame[p].chunks

\* the rows a store_document call has written so far: the last rows stored
\* under its document id, as many as it counted
LastRows(rows, n) == SubSeq(rows, Len(rows) - n + 1, Len(rows))
CallChunkRows(p) ==
    LastRows(SelectRows(document_chunks, "document_id", frame[p].doc_id),
             frame[p].stored_chunks)
CallImageRows(p) ==
    LastRows(SelectRows(document_images, "document_id", frame[p].doc_id),
             frame[p].stored_images)

\* C19: a failed embedding call never ends store_document: the call ends
\* with an exception only when a store write failed, and until then every
\* chunk whose embedding failed has its row, stored with the empty vector.
C19_EmbeddingFailureDegrades ==
    \A p \in Procs :
        frame[p].op = "store" =>
            /\ frame[p].pc = "raised" => frame[p].write_failed
            /\ frame[p].pc # "raised" =>
                  LET rows == CallChunkRows(p)
                  IN  /\ \A i \in 1..Len(rows) : rows[i].text = frame[p].chunks[i].text
                      /\ Cardinality({ i \in 1..Len(rows) : rows[i].embedding = <<>> })
                            = frame[p].emb_failures
            /\ frame[p].pc = "returned" =>
                  /\ frame[p].stored_chunks = Len(frame[p].chunks)
                  /\ frame[p].stored_images = Len(frame[p].images)

\* C19 witness: store_document has returned for two chunks and an image
\* although the embedding of the first chunk failed.
C19_Witness ==
    \E p \in Procs :
        /\ frame[p].op = "store"
        /\ frame[p].pc = "returned"
        /\ Len(frame[p].chunks) = 2
        /\ Len(frame[p].images) >= 1
        /\ frame[p].emb_failures >= 1
        /\ CallChunkRows(p)[1].embedding = <<>>
        /\ CallChunkRows(p)[2].embedding # <<>>

\* C20: a store_document call in which a store write failed ends with an
\* exception, and a call that returned a result has its document row and
\* all its chunk and image rows stored, with the full counts.
C20_WriteFailureRaises ==
    \A p \in Procs :
        frame[p].op = "store" =>
            /\ frame[p].write_failed => frame[p].pc = "raised"
            /\ frame[p].pc = "returned" =>
                  /\ \E d \in documents : d.id = frame[p].doc_id
                  /\ frame[p].ret.chunks_stored = Len(frame[p].chunks)
                  /\ frame[p].ret.images_stored = Len(frame[p].images)
                  /\ Len(CallChunkRows(p)) = Len(frame[p].chunks)
                  /\ Len(CallImageRows(p)) = Len(frame[p].images)
                  /\ \A i \in 1..Len(frame[p].chunks) :
                        CallChunkRows(p)[i].text = frame[p].chunks[i].text
                  /\ \A i \in 1..Len(frame[p].images) :
                        CallImageRows(p)[i].filename = frame[p].images[i].filename

\* C20 witness: a call has ended with an exception after it had stored a
\* chunk row.
C20_Witness ==
    \E p \in Procs :
        /\ frame[p].op = "store"
        /\ frame[p].pc = "raised"
        /\ frame[p].write_failed
        /\ frame[p].stored_chunks >= 1

\* C24: a store_document call that returned has inserted its chunks and its
\* images in input order, the i-th with index i counted from 0, and returns
\* the lengths of the two lists as counts.
C24_RowsInInputOrder ==
    \A p \in Procs :
        (frame[p].op = "store" /\ frame[p].pc = "returned") =>
            LET crows == CallChunkRows(p)
                irows == CallImageRows(p)
            IN  /\ Len(crows) = Len(frame[p].chunks)
                /\ Len(irows) = Len(frame[p].images)
                /\ \A i \in 1..Len(crows) :
                      /\ crows[i].chunk_index = i - 1
                      /\ crows[i].text = frame[p].chunks[i].text
                      /\ crows[i].heading = frame[p].chunks[i].heading
                /\ \A i \in 1..Len(irows) :
                      /\ irows[i].image_index = i - 1
                      /\ irows[i].filename = frame[p].images[i].filename
                      /\ irows[i].image_data = frame[p].images[i].base64_data
                /\ frame[p].ret.chunks_stored = Len(frame[p].chunks)
                /\ frame[p].ret.images_stored = Len(frame[p].images)

\* C24 witness: a call with two chunks and two images has returned.
C24_Witness ==
    \E p \in Procs :
        /\ frame[p].op = "store"
        /\ frame[p].pc = "returned"
        /\ Len(frame[p].chunks) = 2
        /\ Len(frame[p].images) = 2
        /\ Len(document_chunks) = 2
        /\ Len(document_images) = 2

\* C25: delete_document never raises; when it has returned True no document,
\* chunk or image row of the document id remains; image rows are deleted
\* only after the chunk delete ran, and the document row only after the
\* image delete ran, in the step that makes the call return True, so a call
\* that returns False has not deleted the document row.
C25_DeleteCascades ==
    /\ [](\A p \in Procs :
            (frame[p].op = "delete" /\ frame[p].pc = "returned" /\ frame[p].ret) =>
                /\ SelectRows(document_chunks, "document_id", frame[p].doc_id) = <<>>
                /\ SelectRows(document_images, "document_id", frame[p].doc_id) = <<>>
                /\ \A d \in documents : d.id # frame[p].doc_id)
    /\ [][\A p \in Procs :
            frame'[p].op = "delete" =>
                /\ frame'[p].pc # "raised"
                /\ document_images' # document_images => frame[p].pc = "del_images"
                /\ documents' # documents =>
                      /\ frame[p].pc = "del_document"
                      /\ SelectRows(document_chunks, "document_id", frame[p].doc_id) = <<>>
                      /\ SelectRows(document_images, "document_id", frame[p].doc_id) = <<>>
                      /\ frame'[p].pc = "returned"
                      /\ frame'[p].ret]_vars

\* C25 witness: a document was stored, and a delete_document call for its id
\* has returned True and left no document row.
C25_Witness ==
    \E p \in Procs :
        /\ frame[p].op = "delete"
        /\ frame[p].pc = "returned"
        /\ frame[p].ret
        /\ frame[p].doc_id = 1
        /\ next_doc_id = 2
        /\ documents = {}

\* C29: every chunk row and every image row references a document row that
\* is in the store.
C29_NoOrphanRows ==
    /\ \A i \in 1..Len(document_chunks) :
          \E d \in documents : d.id = document_chunks[i].document_id
    /\ \A i \in 1..Len(document_images) :
          \E d \in documents : d.id = document_images[i].document_id

\* C29 witness: a delete_document call has returned False after it had
\* deleted the chunk rows of a document that still has its image rows.
C29_Witness ==
    \E p \in Procs :
        /\ frame[p].op = "delete"
        /\ frame[p].pc = "returned"
        /\ ~frame[p].ret
        /\ \E d \in documents :
              /\ d.id = frame[p].doc_id
              /\ d.chunk_count > 0
              /\ SelectRows(document_chunks, "document_id", d.id) = <<>>
              /\ SelectRows(document_images, "document_id", d.id) # <<>>

\* C2: in every reachable store state there is at most one document row per
\* filename hash.
C2_OneRowPerHash ==
    \A d1 \in documents, d2 \in documents : d1.doc_hash = d2.doc_hash => d1 = d2

\* C2 witness: a filename has been ingested twice (two chunk rows of its
\* document carry chunk_index 0) and has one document row.
C2_Witness ==
    /\ Cardinality(documents) = 1
    /\ \E d \in documents :
          Len(SelectRows(SelectRows(document_chunks, "document_id", d.id),
                         "chunk_index", 0)) = 2

(***************************************************************************)
(* Claims about concurrent store_document calls.                           *)
(***************************************************************************)
\* the rows a call leaves when it runs alone, embeddings aside: its first
\* stored chunks and images, in input order, under its document id
OwnChunkRows(p) ==
    [i \in 1..frame[p].stored_chunks |->
        [document_id |-> frame[p].doc_id, chunk_index |-> i - 1,
         text |-> ConcChunks(p)[i].text, heading |-> ConcChunks(p)[i].heading]]
OwnImageRows(p) ==
    [i \in 1..frame[p].stored_images |->
        [document_id |-> frame[p].doc_id, image_index |-> i - 1,
         filename |-> ConcImages(p)[i].filename,
         image_data |-> ConcImages(p)[i].base64_data]]
WithoutEmbedding(rows) ==
    [i \in 1..Len(rows) |->
        [document_id |-> rows[i].document_id, chunk_index |-> rows[i].chunk_index,
         text |-> rows[i].text, heading |-> rows[i].heading]]
WithoutCaption(rows) ==
    [i \in 1..Len(rows) |->
        [document_id |-> rows[i].document_id, image_index |-> rows[i].image_index,
         filename |-> rows[i].filename, image_data |-> rows[i].image_data]]
Wrote(p) == frame[p].doc_id # 0

\* C23: when two concurrent store_document calls for two different
\* filenames have both ended, the store is as after the two calls run one
\* after the other: each call that got the id of its document row has a row
\* of its own, the chunk rows and the image rows under that row's id are the
\* rows of that call, in its input order, and the tables hold no other row.
C23_ConcurrentCallsIndependent ==
    (\A p \in ConcProcs : frame[p].pc \in {"returned", "raised"}) =>
        /\ \A p, q \in ConcProcs : (p # q /\ Wrote(p) /\ Wrote(q)) =>
              frame[p].doc_id # frame[q].doc_id
        /\ \A p \in ConcProcs : Wrote(p) =>
              /\ \E d \in documents :
                    /\ d.id = frame[p].doc_id
                    /\ d.filename = ConcFilename(p)
                    /\ d.chunk_count = Len(ConcChunks(p))
                    /\ d.image_count = Len(ConcImages(p))
              /\ WithoutEmbedding(SelectRows(document_chunks, "document_id", frame[p].doc_id))
                    = OwnChunkRows(p)
              /\ WithoutCaption(SelectRows(document_images, "document_id", frame[p].doc_id))
                    = OwnImageRows(p)
        /\ \A d \in documents : \E p \in ConcProcs :
              /\ frame[p].op = "store"
              /\ d.filename = ConcFilename(p)
              /\ Wrote(p) => d.id = frame[p].doc_id
        /\ \A d, e \in documents : d # e => (d.id # e.id /\ d.filename # e.filename)
        /\ \A i \in 1..Len(document_chunks) :
              \E p \in ConcProcs : Wrote(p) /\ document_chunks[i].document_id = frame[p].doc_id
        /\ \A i \in 1..Len(document_images) :
              \E p \in ConcProcs : Wrote(p) /\ document_images[i].document_id = frame[p].doc_id

\* both calls have returned and their chunk rows are interleaved in the
\* table: a row of the second document lies between the two of the first
C23_Witness ==
    /\ \A p \in ConcProcs : frame[p].pc = "returned"
    /\ Len(document_chunks) = 3
    /\ document_chunks[1].document_id = frame[1].doc_id
    /\ document_chunks[2].document_id = frame[2].doc_id
    /\ document_chunks[3].document_id = frame[1].doc_id
    /\ Len(document_images) = 2
    /\ document_images[1].document_id = frame[2].doc_id

(***************************************************************************)
(* Claims about process_pdf_to_markdown.                                   *)
(***************************************************************************)
\* the number of placeholders among the first i tokens of s
RECURSIVE PlaceholdersUpTo(_, _)
PlaceholdersUpTo(s, i) ==
    IF i = 0 THEN 0
    ELSE PlaceholdersUpTo(s, i - 1) + (IF s[i] = Placeholder THEN 1 ELSE 0)

Min(a, b) == IF a <= b THEN a ELSE b

\* C26: when process_pdf_to_markdown has replaced the placeholders, the
\* number replaced is the smaller of the number of placeholders in the text
\* and the number of images saved to disk: the k-th placeholder, k up to
\* that number, has become the reference to Image k, the placeholders after
\* it are unchanged, and so is the rest of the text.
C26_ReplacedUpToImagesSaved ==
    pdf_pc = "done" =>
        LET replaced == Min(PlaceholdersUpTo(pdf_text, Len(pdf_text)), Cardinality(pdf_disk))
        IN  /\ Len(full_text_with_images) = Len(pdf_text)
            /\ \A i \in 1..Len(pdf_text) :
                  IF pdf_text[i] = Placeholder /\ PlaceholdersUpTo(pdf_text, i) <= replaced
                  THEN full_text_with_images[i] = ImgTag(PlaceholdersUpTo(pdf_text, i))
                  ELSE full_text_with_images[i] = pdf_text[i]

(***************************************************************************)
(* Claims about search_similar_chunks.                                     *)
(***************************************************************************)
\* C21: the list search_similar_chunks returns has at most limit chunks,
\* each with a similarity at or above threshold, by similarity descending;
\* with threshold 0.9 and stored similarities 0.95, 0.80, 0.5 and no
\* failure it is the first chunk alone.
C21_LimitThresholdOrder ==
    search_pc = "returned" =>
        /\ Len(search_result) <= search_limit
        /\ \A i \in 1..Len(search_result) : search_result[i].similarity >= search_threshold
        /\ \A i \in 1..Len(search_result) : \A j \in i..Len(search_result) :
              search_result[i].similarity >= search_result[j].similarity
        /\ ( /\ search_threshold = 90
             /\ Len(search_rows) = 3
             /\ search_rows[1].similarity = 95
             /\ search_rows[2].similarity = 80
             /\ search_rows[3].similarity = 50
             /\ search_limit >= 1
             /\ search_failure = "none" )
           => /\ Len(search_result) = 1
              /\ search_result[1].text = search_rows[1].text

\* a search that returned two chunks of different similarities, and the
\* search of the scenario
C21_Witness ==
    /\ search_pc = "returned"
    /\ search_failure = "none"
    /\ search_threshold = 70
    /\ search_limit = 2
    /\ Len(search_rows) = 3
    /\ search_rows[1].similarity = 80
    /\ search_rows[2].similarity = 50
    /\ search_rows[3].similarity = 95
    /\ Len(search_result) = 2
    /\ search_result[1].text = search_rows[3].text
    /\ search_result[2].text = search_rows[1].text

\* C22: search_similar_chunks never raises, and it returns the empty list
\* when the store has no chunk, when no chunk has a similarity at or above
\* the threshold, when the embedding of the query failed and when the
\* similarity call failed.
C22_NeverRaisesEmptyList ==
    /\ search_pc # "raised"
    /\ ( /\ search_pc = "returned"
         /\ \/ search_rows = <<>>
            \/ \A i \in 1..Len(search_rows) : search_rows[i].similarity < search_threshold
            \/ search_failure \in {"embedding", "rpc"} )
       => search_result = <<>>

\* a search whose similarity call failed over a store with a chunk above
\* the threshold, and that returned the empty list
C22_Witness ==
    /\ search_pc = "returned"
    /\ search_failure = "rpc"
    /\ search_limit >= 1
    /\ \E i \in 1..Len(search_rows) : search_rows[i].similarity >= search_threshold
    /\ search_result = <<>>

====
